---- MODULE Spec2Model ----
(***************************************************************************)
(* The snapshot server of creeper (app.js, latest revision): snapshotGrid  *)
(* composites four camera feeds into one canvas, post-processes it and     *)
(* writes snapshots/creeper.jpg; setInterval starts a run every INTERVAL;  *)
(* GET /latest.png streams the file.                                       *)
(* SpecGen is the earlier server (generateGrid and its startup function),  *)
(* SpecPure evaluates the pixel, geometry and crop computations, SpecTwin   *)
(* runs two calls of snapshotGrid side by side with what they were fed.     *)
(* SpecHealth runs two calls next to a GET /health request and counts the   *)
(* publishes of an interval.                                                *)
(* SpecOld is the server before the retry loop (overlay loaded without a    *)
(* catch), SpecProbe a GET /health request on its own, SpecCoin the coin    *)
(* scripts (coindeploy.js in its revisions, deployCoin.js).                 *)
(***************************************************************************)
EXTENDS Integers, Sequences, FiniteSets, TLC

(* ----------------------------- bounds ---------------------------------- *)
\* runs of snapshotGrid started in one behaviour (the first one included)
MaxRuns == 2
\* chunks the reader of /latest.png needs to stream one snapshot file
FileChunks == 2
\* the numbers of configured camera entries the server specification is run
\* with; the single-run specification covers every number up to MaxCams
SrvCams == {0, 1}
\* configured camera entries tried by the single-run specification
MaxCams == 5

(* ------------------------- program constants --------------------------- *)
SLOTS == 4
RETRIES == 2
MINLEN == 100
MINDIM == 10
SIZE == 2048
GRID == SIZE \div 2
BORDER == 8
INTERVAL == 300000
FETCHTIMEOUT == 10000
RETRYDELAY == 2000

VARIABLES
    nCams,   \* CAMERAS.length, fixed at process start
    runs,    \* the calls of snapshotGrid, in the order they were started
    file,    \* snapshots/creeper.jpg
    rd,      \* the GET /latest.png request being served
    proc,    \* the node process
    sched,   \* whether the setInterval timer is installed
    hist,    \* per run, the outcomes its awaits settled with (twin runs only)
    calc,    \* the last evaluation of one of the drawing computations
    hl,      \* the GET /health request being served
    pubs,    \* the runs that published since the last trigger of the timer
    coin     \* the coin script (coindeploy.js, deployCoin.js), chain and pins

vars == <<nCams, runs, file, rd, proc, sched, hist, calc, hl, pubs, coin>>

(* ------------------------- response bodies ----------------------------- *)
\* the first bytes of the buffer, its length, and what loadImage makes of it:
\* it throws (dec = FALSE) or yields an image of w x h pixels
Body(len, hdr, dec, w, h) == [len |-> len, hdr |-> hdr, dec |-> dec, w |-> w, h |-> h]

Bodies ==
    { Body(5000, <<255, 216, 255, 224>>, TRUE, 640, 480),
      Body(5000, <<137, 80, 78, 71>>, TRUE, 480, 640),
      Body(100, <<71, 73, 70, 56>>, TRUE, 9, 9),
      Body(5000, <<255, 216, 255, 219>>, FALSE, 0, 0),
      Body(99, <<255, 216, 255, 224>>, TRUE, 640, 480),
      Body(5000, <<60, 104, 116, 109>>, FALSE, 0, 0),
      Body(0, <<>>, FALSE, 0, 0),
      Body(5000, <<137, 80, 78, 70>>, TRUE, 480, 640),
      Body(5000, <<255, 216, 0, 0>>, TRUE, 640, 480) }

NoBody == Body(0, <<>>, FALSE, 0, 0)

\* Buffer.toString('hex'): two hexadecimal digits per byte
RECURSIVE ToHex(_)
ToHex(bytes) ==
    IF bytes = <<>> THEN <<>>
    ELSE <<Head(bytes) \div 16, Head(bytes) % 16>> \o ToHex(Tail(bytes))

StartsWith(s, p) == Len(s) >= Len(p) /\ SubSeq(s, 1, Len(p)) = p

\* validateAndLoadImage without its header check
ValidateErrorLengthOnly(buf) == IF buf.len < MINLEN THEN "short" ELSE ""

\* the synchronous checks of validateAndLoadImage: "" when the buffer passes
ValidateError(buf) ==
    IF buf.len < MINLEN THEN "short"
    ELSE LET header == ToHex(buf.hdr)
             isJPEG == StartsWith(header, <<15, 15, 13, 8, 15, 15>>)
             isPNG  == header = <<8, 9, 5, 0, 4, 14, 4, 7>>
             isGIF  == StartsWith(header, <<4, 7, 4, 9, 4, 6>>)
         IN IF ~isJPEG /\ ~isPNG /\ ~isGIF THEN "format" ELSE ""

\* the rest of validateAndLoadImage, once loadImage has settled
LoadError(buf) ==
    IF ~buf.dec THEN "decode"
    ELSE IF buf.w < MINDIM \/ buf.h < MINDIM THEN "dims"
    ELSE ""

(* ------------------------------ a run ---------------------------------- *)
Op(name, slot) == [op |-> name, slot |-> slot]

\* the state of one call of snapshotGrid, suspended at the await pc names
NewRun ==
    [pc |-> "start", i |-> 0, retries |-> 0, success |-> FALSE, att |-> 0,
     err |-> "", buf |-> NoBody, ops |-> <<Op("fill", -1)>>, waited |-> FALSE,
     timer |-> FALSE]

\* a settled call keeps nothing but how it settled
Settled(how) ==
    [pc |-> how, i |-> 0, retries |-> 0, success |-> FALSE, att |-> 0,
     err |-> "", buf |-> NoBody, ops |-> <<>>, waited |-> TRUE, timer |-> FALSE]

Active(run) == run.pc \notin {"done", "rejected"}

RECURSIVE Labels(_, _)
\* CAMERAS.forEach(({ location }, i) => fillText(location, x, y))
Labels(i, n) == IF i >= n THEN <<>> ELSE <<Op("label", i)>> \o Labels(i + 1, n)

\* post-processing with the location labels drawn before the grayscale step
PostProcessLabelsFirst(run) ==
    [run EXCEPT !.pc = "overlay", !.buf = NoBody, !.err = "",
                !.ops = @ \o Labels(0, nCams) \o <<Op("gray", -1), Op("tint", -1)>>,
                !.waited = TRUE]

\* steps 4-6 and the suspension at loadImage(overlay.svg)
PostProcess(run) ==
    [run EXCEPT !.pc = "overlay", !.buf = NoBody, !.err = "",
                !.ops = @ \o <<Op("gray", -1), Op("tint", -1)>> \o Labels(0, nCams),
                !.waited = TRUE]

\* one attempt: the first statements of the while body up to the await fetch of
\* fetchWithTimeout, whose setTimeout has armed the abort timer
Attempt(run) ==
    [run EXCEPT !.pc = "fetch", !.att = @ + 1, !.err = "", !.buf = NoBody,
                !.timer = TRUE]

RECURSIVE SlotLoop(_, _)
\* for (let i = ...; i < 4; i++) { const cam = CAMERAS[i]; if (!cam) continue; ... }
SlotLoop(run, i) ==
    IF i >= SLOTS THEN PostProcess(run)
    ELSE IF i >= nCams THEN SlotLoop(run, i + 1)
    ELSE Attempt([run EXCEPT !.i = i, !.retries = RETRIES, !.success = FALSE,
                             !.att = 0])

\* a loop that goes to the next slot whatever became of the current one
WhileLoopLeavesSlot(run) == SlotLoop(run, run.i + 1)

\* the while condition, evaluated after an attempt or its catch block
WhileLoop(run) ==
    IF run.retries > 0 /\ ~run.success THEN Attempt(run)
    ELSE SlotLoop(run, run.i + 1)

\* a catch block that throws the last error again instead of drawing the box
CatchRethrows(run, err) ==
    LET left == run.retries - 1
    IN IF left > 0
       THEN [run EXCEPT !.pc = "delay", !.retries = left, !.err = err,
                        !.buf = NoBody]
       ELSE Settled("rejected")

\* a catch block in which a timeout ends the run instead of the attempt
CatchAbortEndsRun(run, err) ==
    LET left == run.retries - 1
    IN IF err = "abort" THEN Settled("rejected")
       ELSE IF left > 0
       THEN [run EXCEPT !.pc = "delay", !.retries = left, !.err = err,
                        !.buf = NoBody]
       ELSE WhileLoop([run EXCEPT !.retries = left, !.err = err, !.buf = NoBody,
                                  !.ops = @ \o <<Op("placeholder", run.i),
                                                 Op("status", run.i)>>])

\* a catch block that waits the retry delay after the last attempt too
CatchAlwaysDelays(run, err) ==
    LET left == run.retries - 1
    IN IF left > 0
       THEN [run EXCEPT !.pc = "delay", !.retries = left, !.err = err,
                        !.buf = NoBody]
       ELSE [run EXCEPT !.pc = "delay", !.retries = left, !.err = err,
                        !.buf = NoBody,
                        !.ops = @ \o <<Op("placeholder", run.i), Op("status", run.i)>>]

\* the catch block of the retry loop, up to its await or its end
Catch(run, err) ==
    LET left == run.retries - 1
    IN IF left > 0
       THEN [run EXCEPT !.pc = "delay", !.retries = left, !.err = err,
                        !.buf = NoBody]
       ELSE WhileLoop([run EXCEPT !.retries = left, !.err = err, !.buf = NoBody,
                                  !.ops = @ \o <<Op("placeholder", run.i),
                                                 Op("status", run.i)>>])

\* snapshotGrid from its first line to its first await
StartRun == SlotLoop(NewRun, 0)

(* --------------------------- the file ---------------------------------- *)
NoFile == [exists |-> FALSE, data |-> <<>>]
\* an encoding of the bare background instead of the canvas
SnapshotOfBackground(v) == [k \in 1..FileChunks |-> <<Op("fill", -1)>>]

\* the JPEG of canvas v (the drawing operations it received), as the chunks a
\* reader streams
Snapshot(v) == [k \in 1..FileChunks |-> v]
Written(data) == [exists |-> TRUE, data |-> data]


(* -------------------------- the scheduler ------------------------------ *)
Put(r, run) == [runs EXCEPT ![r] = run]

\* the longest a run lasts when it never waits on an await without a timeout:
\* every attempt ends within the fetch timeout, every delay is the fixed one
BoundedRunTime == SLOTS * (RETRIES * FETCHTIMEOUT + (RETRIES - 1) * RETRYDELAY)

\* a run can still be suspended INTERVAL after it started
CanOutlast(run) == run.waited \/ BoundedRunTime >= INTERVAL

\* a callback whose run draws on the canvas the run before it left
TickOnLeftCanvas ==
    /\ proc = "up"
    /\ Len(runs) < MaxRuns
    /\ \A r \in DOMAIN runs : Active(runs[r]) => CanOutlast(runs[r])
    /\ runs' = Append(runs, SlotLoop([NewRun EXCEPT !.ops = runs[Len(runs)].ops \o @], 0))
    /\ UNCHANGED <<nCams, file, rd, proc>>

\* setInterval(snapshotGrid, INTERVAL): the callback calls snapshotGrid
Tick ==
    /\ proc = "up"
    /\ Len(runs) < MaxRuns
    /\ \A r \in DOMAIN runs : Active(runs[r]) => CanOutlast(runs[r])
    /\ runs' = Append(runs, StartRun)
    /\ UNCHANGED <<nCams, file, rd, proc>>

(* ----------------------- the steps of a run ---------------------------- *)
FetchOutcomes == {"ok", "http", "net", "abort"}

\* a fetchWithTimeout that returns without clearing its timer
ClearTimeoutForgotten(run) == run

\* fetchWithTimeout after its await fetch: clearTimeout(id)
ClearTimeout(run) == [run EXCEPT !.timer = FALSE]

\* await fetchWithTimeout(url) settles, then the res.ok test
FetchSettle(r, out) ==
    /\ proc = "up"
    /\ runs[r].pc = "fetch"
    /\ out = "abort" => runs[r].timer
    /\ runs' = Put(r, IF out = "ok"
                      THEN [ClearTimeout(runs[r]) EXCEPT !.pc = "buffer",
                                                         !.waited = TRUE]
                      ELSE Catch(ClearTimeout(runs[r]), out))
    /\ UNCHANGED <<nCams, file, rd, proc>>

\* await res.buffer() resolves, then validateAndLoadImage up to await loadImage
BufferSettle(r, b) ==
    /\ proc = "up"
    /\ runs[r].pc = "buffer"
    /\ runs' = Put(r, IF ValidateError(b) = ""
                      THEN [runs[r] EXCEPT !.pc = "load", !.buf = b]
                      ELSE Catch(runs[r], ValidateError(b)))
    /\ UNCHANGED <<nCams, file, rd, proc>>

\* await res.buffer() rejects: the body stream broke
BufferFail(r) ==
    /\ proc = "up"
    /\ runs[r].pc = "buffer"
    /\ runs' = Put(r, Catch(runs[r], "read"))
    /\ UNCHANGED <<nCams, file, rd, proc>>

\* a draw that leaves success false and counts as a used attempt, so that the
\* while loop goes on
DrawKeepsTrying(run) ==
    [run EXCEPT !.ops = @ \o <<Op("image", run.i)>>, !.buf = NoBody,
                !.retries = @ - 1]

\* center crop and drawImage, success = true
Draw(run) ==
    [run EXCEPT !.ops = @ \o <<Op("image", run.i)>>, !.success = TRUE,
                !.buf = NoBody]

\* await loadImage(buffer) settles, then the size check and the draw
LoadSettle(r) ==
    /\ proc = "up"
    /\ runs[r].pc = "load"
    /\ runs' = Put(r, IF LoadError(runs[r].buf) = ""
                      THEN WhileLoop(Draw(runs[r]))
                      ELSE Catch(runs[r], LoadError(runs[r].buf)))
    /\ UNCHANGED <<nCams, file, rd, proc>>

\* the 2 s timer of the catch block fires
DelaySettle(r) ==
    /\ proc = "up"
    /\ runs[r].pc = "delay"
    /\ runs' = Put(r, WhileLoop(runs[r]))
    /\ UNCHANGED <<nCams, file, rd, proc>>

\* how step 8 ends: it succeeds, mkdirSync throws, writeFileSync cannot open the
\* file, or writeFileSync fails after writing n chunks (disk full)
SaveOutcomes ==
    {[kind |-> "ok", n |-> FileChunks], [kind |-> "mkdir", n |-> 0],
     [kind |-> "open", n |-> 0]}
        \cup {[kind |-> "partial", n |-> k] : k \in 0..(FileChunks - 1)}

\* a save that removes the file when it cannot write the whole of it
WriteFileSyncUnlinks(data, out) ==
    IF out.kind = "ok" THEN Written(data) ELSE NoFile

\* fs.writeFileSync(path, jpegBuffer): flag 'w' truncates the file it opens,
\* then writes; an error while writing leaves what was written so far
WriteFileSync(data, out) ==
    IF out.kind \in {"mkdir", "open"} THEN file
    ELSE Written(SubSeq(data, 1, out.n))

\* step 7: ctx.drawImage(svgImg, 0, 0, SIZE, SIZE) when overlay.svg loaded
DrawOverlay(run, drawn) ==
    IF drawn THEN [run EXCEPT !.ops = @ \o <<Op("overlay", -1)>>] ELSE run

\* await loadImage(overlay.svg) settles (its failure is caught), then step 8
OverlaySettle(r, drawn, out) ==
    /\ proc = "up"
    /\ runs[r].pc = "overlay"
    /\ file' = WriteFileSync(Snapshot(DrawOverlay(runs[r], drawn).ops), out)
    /\ runs' = Put(r, Settled(IF out.kind = "ok" THEN "done" ELSE "rejected"))
    /\ UNCHANGED <<nCams, rd, proc>>

\* nothing handles the promise of a rejected run: node ends the process
\* (the default since node 15; older versions only warn and go on)
ProcessExit ==
    /\ proc = "up"
    /\ \E r \in DOMAIN runs : runs[r].pc = "rejected"
    /\ proc' = "crashed"
    /\ UNCHANGED <<nCams, runs, file, rd>>

(* ------------------------ GET /latest.png ------------------------------ *)
Idle == [pc |-> "idle", size |-> 0, got |-> <<>>, status |-> 0]

\* res.sendFile(file): stat the file (404 when there is none), open it
Request ==
    /\ proc = "up"
    /\ rd.pc # "reading"
    /\ rd' = IF file.exists
             THEN IF Len(file.data) = 0
                  THEN [pc |-> "sent", size |-> 0, got |-> <<>>, status |-> 200]
                  ELSE [pc |-> "reading", size |-> Len(file.data), got |-> <<>>,
                        status |-> 200]
             ELSE [pc |-> "sent", size |-> 0, got |-> <<>>, status |-> 404]
    /\ UNCHANGED <<nCams, runs, file, proc>>

\* the read stream delivers the next chunk of the open file, or meets its end
ReadChunk ==
    /\ proc = "up"
    /\ rd.pc = "reading"
    /\ LET pos == Len(rd.got) + 1
       IN IF pos > Len(file.data)
          THEN rd' = [rd EXCEPT !.pc = "sent"]
          ELSE rd' = [rd EXCEPT !.got = Append(@, file.data[pos]),
                                !.pc = IF pos = rd.size THEN "sent" ELSE "reading"]
    /\ UNCHANGED <<nCams, runs, file, proc>>

(* ------------------------- specifications ------------------------------ *)
\* no drawing computation evaluated yet
NoCalc == [fn |-> "none"]

\* no coin script has been run
NoCoin == [pc |-> "none"]

\* no /health request received yet
HIdle == [pc |-> "idle", i |-> 0, timer |-> FALSE, statuses |-> <<>>]

\* what the steps of snapshotGrid and of the server leave alone
Rest == UNCHANGED <<sched, hist, calc, hl, pubs, coin>>

\* the server: snapshotGrid(); setInterval(snapshotGrid, INTERVAL); app.listen
Init ==
    /\ nCams \in SrvCams
    /\ runs = <<StartRun>>
    /\ file = NoFile
    /\ rd = Idle
    /\ proc = "up"
    /\ sched = "on"
    /\ hist = <<>>
    /\ calc = NoCalc
    /\ hl = HIdle
    /\ pubs = {}
    /\ coin = NoCoin

Next ==
    \/ \E r \in DOMAIN runs, out \in FetchOutcomes : FetchSettle(r, out) /\ Rest
    \/ \E r \in DOMAIN runs, b \in Bodies : BufferSettle(r, b) /\ Rest
    \/ \E r \in DOMAIN runs : BufferFail(r) /\ Rest
    \/ \E r \in DOMAIN runs : LoadSettle(r) /\ Rest
    \/ \E r \in DOMAIN runs : DelaySettle(r) /\ Rest
    \/ \E r \in DOMAIN runs, drawn \in BOOLEAN, out \in SaveOutcomes :
          OverlaySettle(r, drawn, out) /\ Rest
    \/ Tick /\ Rest
    \/ ProcessExit /\ Rest
    \/ Request /\ Rest
    \/ ReadChunk /\ Rest

Spec == Init /\ [][Next]_vars

\* one call of snapshotGrid alone, for every number of configured cameras
InitRun ==
    /\ nCams \in 0..MaxCams
    /\ runs = <<StartRun>>
    /\ file = NoFile
    /\ rd = Idle
    /\ proc = "up"
    /\ sched = "on"
    /\ hist = <<>>
    /\ calc = NoCalc
    /\ hl = HIdle
    /\ pubs = {}
    /\ coin = NoCoin

NextRun ==
    \/ \E out \in FetchOutcomes : FetchSettle(1, out) /\ Rest
    \/ \E b \in Bodies : BufferSettle(1, b) /\ Rest
    \/ BufferFail(1) /\ Rest
    \/ LoadSettle(1) /\ Rest
    \/ DelaySettle(1) /\ Rest
    \/ \E drawn \in BOOLEAN, out \in SaveOutcomes :
          OverlaySettle(1, drawn, out) /\ Rest
    \/ ProcessExit /\ Rest

SpecRun == InitRun /\ [][NextRun]_vars

(* ------------- the earlier server: generateGrid (app.js) --------------- *)
\* the numbers of configured camera entries the specification of generateGrid
\* is run with
GenCams == {0, 1, 2}

\* the state of one call of generateGrid; first: the call awaited by the startup
\* function (the later ones are made by the setInterval callback)
GenRun(first) ==
    [pc |-> "start", i |-> 0, buf |-> NoBody, ops |-> <<Op("fill", -1)>>,
     wr |-> 0, waited |-> FALSE, first |-> first]

GenSettled(how) ==
    [pc |-> how, i |-> 0, buf |-> NoBody, ops |-> <<>>, wr |-> 0, waited |-> TRUE,
     first |-> FALSE]

\* for (let i = 0; i < CAMERAS.length; i++) up to await fetch(url), and after the
\* loop createWriteStream and pipe, up to the opening of the file
GenLoop(run, i) ==
    IF i >= nCams THEN [run EXCEPT !.pc = "gopen", !.buf = NoBody, !.wr = 0]
    ELSE [run EXCEPT !.pc = "gfetch", !.i = i, !.buf = NoBody, !.waited = TRUE]

GenStart(first) == GenLoop(GenRun(first), 0)

\* a catch block with the gray-box fallback the README proposes to add
GenCatchGrayBox(run) ==
    GenLoop([run EXCEPT !.ops = @ \o <<Op("placeholder", run.i)>>], run.i + 1)

\* catch (err) { console.error(...) }: nothing is drawn, the loop goes on
GenCatch(run) == GenLoop(run, run.i + 1)

\* ctx.drawImage(img, x, y, GRID, GRID); drawLabel(ctx, cam.location, ...)
GenDraw(run) ==
    [run EXCEPT !.ops = @ \o <<Op("image", run.i), Op("label", run.i)>>]

\* await fetch(url) settles, then the resp.ok test
GenFetchSettle(r, ok) ==
    /\ proc = "up"
    /\ runs[r].pc = "gfetch"
    /\ runs' = Put(r, IF ok THEN [runs[r] EXCEPT !.pc = "gbuffer"]
                      ELSE GenCatch(runs[r]))
    /\ UNCHANGED <<nCams, file, rd, proc, sched, hist, calc, hl, pubs, coin>>

\* await resp.buffer() resolves: the buffer goes to loadImage unchecked
GenBufferSettle(r, b) ==
    /\ proc = "up"
    /\ runs[r].pc = "gbuffer"
    /\ runs' = Put(r, [runs[r] EXCEPT !.pc = "gload", !.buf = b])
    /\ UNCHANGED <<nCams, file, rd, proc, sched, hist, calc, hl, pubs, coin>>

\* await resp.buffer() rejects
GenBufferFail(r) ==
    /\ proc = "up"
    /\ runs[r].pc = "gbuffer"
    /\ runs' = Put(r, GenCatch(runs[r]))
    /\ UNCHANGED <<nCams, file, rd, proc, sched, hist, calc, hl, pubs, coin>>

\* await loadImage(buffer) settles, then the draw and the label
GenLoadSettle(r) ==
    /\ proc = "up"
    /\ runs[r].pc = "gload"
    /\ runs' = Put(r, IF runs[r].buf.dec THEN GenLoop(GenDraw(runs[r]), runs[r].i + 1)
                      ELSE GenCatch(runs[r]))
    /\ UNCHANGED <<nCams, file, rd, proc, sched, hist, calc, hl, pubs, coin>>

\* the promise of generateGrid rejects: the startup function catches it and
\* logs, the async setInterval callback lets it go unhandled
GenReject(run) == GenSettled(IF run.first THEN "caught" ELSE "rejected")

\* the startup function after await generateGrid(): setInterval(...)
GenSched(run) == IF run.first THEN "on" ELSE sched

\* fs.createWriteStream opens the file with flag 'w' (which truncates it), or
\* emits 'error'
GenOpen(r, ok) ==
    /\ proc = "up"
    /\ runs[r].pc = "gopen"
    /\ IF ok
       THEN /\ file' = Written(<<>>)
            /\ runs' = Put(r, [runs[r] EXCEPT !.pc = "gwrite"])
       ELSE /\ file' = file
            /\ runs' = Put(r, GenReject(runs[r]))
    /\ UNCHANGED <<nCams, rd, proc, sched, hist, calc, hl, pubs, coin>>

\* the bytes of the file after the stream wrote chunk c at its position k
WriteAt(data, k, c) ==
    [j \in 1..(IF k > Len(data) THEN k ELSE Len(data)) |->
        IF j = k THEN c ELSE IF j <= Len(data) THEN data[j] ELSE <<>>]

\* the write stream writes the next chunk of the JPEG stream at its own position
\* ('finish' after the last one resolves the promise), or emits 'error'
GenWrite(r, ok) ==
    /\ proc = "up"
    /\ runs[r].pc = "gwrite"
    /\ IF ok
       THEN /\ file' = Written(WriteAt(file.data, runs[r].wr + 1, runs[r].ops))
            /\ IF runs[r].wr + 1 = FileChunks
               THEN /\ runs' = Put(r, GenSettled("done"))
                    /\ sched' = GenSched(runs[r])
               ELSE /\ runs' = Put(r, [runs[r] EXCEPT !.wr = @ + 1])
                    /\ sched' = sched
       ELSE /\ file' = file
            /\ runs' = Put(r, GenReject(runs[r]))
            /\ sched' = sched
    /\ UNCHANGED <<nCams, rd, proc, hist, calc, hl, pubs, coin>>

\* the timer installed by the startup function fires: await generateGrid()
GenTick ==
    /\ proc = "up"
    /\ sched = "on"
    /\ Len(runs) < MaxRuns
    /\ \A r \in DOMAIN runs : runs[r].waited
    /\ runs' = Append(runs, GenStart(FALSE))
    /\ UNCHANGED <<nCams, file, rd, proc, sched, hist, calc, hl, pubs, coin>>

InitGen ==
    /\ nCams \in GenCams
    /\ runs = <<GenStart(TRUE)>>
    /\ file = NoFile
    /\ rd = Idle
    /\ proc = "up"
    /\ sched = "off"
    /\ hist = <<>>
    /\ calc = NoCalc
    /\ hl = HIdle
    /\ pubs = {}
    /\ coin = NoCoin

NextGen ==
    \/ \E r \in DOMAIN runs, ok \in BOOLEAN : GenFetchSettle(r, ok)
    \/ \E r \in DOMAIN runs, b \in Bodies : GenBufferSettle(r, b)
    \/ \E r \in DOMAIN runs : GenBufferFail(r)
    \/ \E r \in DOMAIN runs : GenLoadSettle(r)
    \/ \E r \in DOMAIN runs, ok \in BOOLEAN : GenOpen(r, ok)
    \/ \E r \in DOMAIN runs, ok \in BOOLEAN : GenWrite(r, ok)
    \/ GenTick
    \/ ProcessExit /\ Rest

SpecGen == InitGen /\ [][NextGen]_vars

(* ------------------- the drawing computations -------------------------- *)
\* channel values and alpha values the pixel computations are evaluated on
Channels == {0, 1, 2, 85, 128, 254, 255}
Alphas == {0, 128, 255}
Pixels == [r : Channels, g : Channels, b : Channels, a : Alphas]

\* a store into a Uint8ClampedArray of the number num / den: clamped to 0..255
\* and rounded to the nearest integer, a tie to the even one
ToUint8Clamp(num, den) ==
    LET f == num \div den
        twice == 2 * (num % den)
        n == IF twice < den THEN f
             ELSE IF twice > den THEN f + 1
             ELSE IF f % 2 = 0 THEN f ELSE f + 1
    IN IF n < 0 THEN 0 ELSE IF n > 255 THEN 255 ELSE n

\* a grayscale loop body that stores the average in the red channel only
GrayscaleAvgRedOnly(p) == [p EXCEPT !.r = ToUint8Clamp(p.r + p.g + p.b, 3)]

\* step 4 of snapshotGrid: avg = (r + g + b) / 3 stored in the three channels
GrayscaleAvg(p) ==
    LET avg == ToUint8Clamp(p.r + p.g + p.b, 3)
    IN [p EXCEPT !.r = avg, !.g = avg, !.b = avg]

\* step 4 of the earlier snapshotGrid and of generateGridSVG:
\* lum = 0.299*r + 0.587*g + 0.114*b stored in the three channels
GrayscaleLuma(p) ==
    LET lum == ToUint8Clamp(299 * p.r + 587 * p.g + 114 * p.b, 1000)
    IN [p EXCEPT !.r = lum, !.g = lum, !.b = lum]

Evaluated(fn, in, out) == [fn |-> fn, in |-> in, out |-> out]

\* each behaviour evaluates one computation on one input
GrayAvgStep(p) ==
    /\ calc = NoCalc
    /\ calc' = Evaluated("GrayscaleAvg", p, GrayscaleAvg(p))
    /\ UNCHANGED <<nCams, runs, file, rd, proc, sched, hist, hl, pubs, coin>>

GrayLumaStep(p) ==
    /\ calc = NoCalc
    /\ calc' = Evaluated("GrayscaleLuma", p, GrayscaleLuma(p))
    /\ UNCHANGED <<nCams, runs, file, rd, proc, sched, hist, hl, pubs, coin>>

\* image widths and heights the crop is evaluated on
Dims == {1, 10, 11, 480, 640}

Rect(x, y, w, h) == [x |-> x, y |-> y, w |-> w, h |-> h]

\* snapshotGrid: dx, dy and inner of slot i, the destination of its tile
DestRect(i) ==
    LET dx == (i % 2) * GRID + BORDER
        dy == (i \div 2) * GRID + BORDER
        inner == GRID - 2 * BORDER
    IN Rect(dx, dy, inner, inner)

\* generateGrid: ctx.drawImage(img, x, y, GRID, GRID) with x = col * GRID and
\* y = row * GRID
GenDestRect(i) ==
    LET row == i \div 2
        col == i % 2
    IN Rect(col * GRID, row * GRID, GRID, GRID)

\* snapshotGrid: the source rectangle of drawImage(img, sx, sy, side, side, dx,
\* dy, inner, inner) for an image of w x h, its origin in half pixels (sx and
\* sy are halves of integers), and the size it is scaled to
Crop(w, h) ==
    LET side == IF w < h THEN w ELSE h
    IN [sx2 |-> w - side, sy2 |-> h - side, sw |-> side, sh |-> side,
        dw |-> GRID - 2 * BORDER, dh |-> GRID - 2 * BORDER]

\* generateGrid: drawImage(img, x, y, GRID, GRID) takes the whole image
GenCrop(w, h) ==
    [sx2 |-> 0, sy2 |-> 0, sw |-> w, sh |-> h, dw |-> GRID, dh |-> GRID]

\* widths in pixels measureText can report for a location text
TextWidths == {0, 300, 1004, 1005, 2500}

\* generateGrid: drawLabel(ctx, cam.location, x + 10, y + 10), whose background
\* box is fillRect(x - 10, y - 10, metrics.width + 20, 60) in its own x and y
GenLabelBox(i, tw) ==
    LET x == GenDestRect(i).x + 10
        y == GenDestRect(i).y + 10
        labelWidth == tw + 20
        labelHeight == 60
    IN Rect(x - 10, y - 10, labelWidth, labelHeight)

GenLabelBoxStep(i, tw) ==
    /\ calc = NoCalc
    /\ calc' = Evaluated("GenLabelBox", [i |-> i, tw |-> tw], GenLabelBox(i, tw))
    /\ UNCHANGED <<nCams, runs, file, rd, proc, sched, hist, hl, pubs, coin>>

DestRectStep(i) ==
    /\ calc = NoCalc
    /\ calc' = Evaluated("DestRect", i, DestRect(i))
    /\ UNCHANGED <<nCams, runs, file, rd, proc, sched, hist, hl, pubs, coin>>

GenDestRectStep(i) ==
    /\ calc = NoCalc
    /\ calc' = Evaluated("GenDestRect", i, GenDestRect(i))
    /\ UNCHANGED <<nCams, runs, file, rd, proc, sched, hist, hl, pubs, coin>>

CropStep(w, h) ==
    /\ calc = NoCalc
    /\ calc' = Evaluated("Crop", [w |-> w, h |-> h], Crop(w, h))
    /\ UNCHANGED <<nCams, runs, file, rd, proc, sched, hist, hl, pubs, coin>>

GenCropStep(w, h) ==
    /\ calc = NoCalc
    /\ calc' = Evaluated("GenCrop", [w |-> w, h |-> h], GenCrop(w, h))
    /\ UNCHANGED <<nCams, runs, file, rd, proc, sched, hist, hl, pubs, coin>>

InitPure ==
    /\ nCams = 0
    /\ runs = <<>>
    /\ file = NoFile
    /\ rd = Idle
    /\ proc = "up"
    /\ sched = "off"
    /\ hist = <<>>
    /\ calc = NoCalc
    /\ hl = HIdle
    /\ pubs = {}
    /\ coin = NoCoin

NextPure ==
    \/ \E p \in Pixels : GrayAvgStep(p)
    \/ \E p \in Pixels : GrayLumaStep(p)
    \/ \E i \in 0..(SLOTS - 1) : DestRectStep(i)
    \/ \E i \in 0..(MaxCams - 1) : GenDestRectStep(i)
    \/ \E w \in Dims, h \in Dims : CropStep(w, h)
    \/ \E w \in Dims, h \in Dims : GenCropStep(w, h)
    \/ \E i \in 0..(MaxCams - 1), tw \in TextWidths : GenLabelBoxStep(i, tw)

SpecPure == InitPure /\ [][NextPure]_vars

(* ------------------- two runs and what they were fed ------------------- *)
\* the numbers of configured camera entries the two runs are compared with
TwinCams == {0, 1}

\* what an await of a run settled with: how, and the bytes when there are any
Outcome(how, body) == [how |-> how, body |-> body]

Fed(r, o) == [hist EXCEPT ![r] = Append(@, o)]

TwinFetch(r, out) ==
    /\ FetchSettle(r, out)
    /\ hist' = Fed(r, Outcome(out, NoBody))
    /\ UNCHANGED <<sched, calc, hl, pubs, coin>>

TwinBuffer(r, b) ==
    /\ BufferSettle(r, b)
    /\ hist' = Fed(r, Outcome("body", b))
    /\ UNCHANGED <<sched, calc, hl, pubs, coin>>

TwinBufferFail(r) ==
    /\ BufferFail(r)
    /\ hist' = Fed(r, Outcome("read", NoBody))
    /\ UNCHANGED <<sched, calc, hl, pubs, coin>>

\* the second run starts while the first is suspended
TwinTick ==
    /\ Len(runs) = 1
    /\ Tick
    /\ hist' = Append(hist, <<>>)
    /\ UNCHANGED <<sched, calc, hl, pubs, coin>>

InitTwin ==
    /\ nCams \in TwinCams
    /\ runs = <<StartRun>>
    /\ file = NoFile
    /\ rd = Idle
    /\ proc = "up"
    /\ sched = "on"
    /\ hist = <<<<>>>>
    /\ calc = NoCalc
    /\ hl = HIdle
    /\ pubs = {}
    /\ coin = NoCoin

NextTwin ==
    \/ \E r \in DOMAIN runs, out \in FetchOutcomes : TwinFetch(r, out)
    \/ \E r \in DOMAIN runs, b \in Bodies : TwinBuffer(r, b)
    \/ \E r \in DOMAIN runs : TwinBufferFail(r)
    \/ \E r \in DOMAIN runs : LoadSettle(r) /\ Rest
    \/ \E r \in DOMAIN runs : DelaySettle(r) /\ Rest
    \/ TwinTick

SpecTwin == InitTwin /\ [][NextTwin]_vars

(* ---------------- GET /health next to two runs -------------------------- *)
\* the entry pushed for camera i: status 'online' or 'error' with the status
\* code of a response, 'offline' with the message of the error that was thrown
\* (cause stands for the status code class or the error)
StatusEntry(i, out) ==
    [camera |-> i,
     status |-> IF out = "ok" THEN "online"
                ELSE IF out = "http" THEN "error"
                ELSE "offline",
     cause |-> out]

\* a loop that answers at once when the last probe failed
HealthLoopStopsOnFailure(h, i) ==
    IF i >= nCams \/ (h.statuses # <<>> /\ h.statuses[Len(h.statuses)].status = "offline")
    THEN [h EXCEPT !.pc = "sent", !.timer = FALSE]
    ELSE [h EXCEPT !.pc = "probe", !.i = i, !.timer = TRUE]

\* for (let i = 0; i < CAMERAS.length; i++) up to await fetchWithTimeout(url,
\* 5000), which arms its own abort timer; after the loop res.json(...)
HealthLoop(h, i) ==
    IF i >= nCams THEN [h EXCEPT !.pc = "sent", !.timer = FALSE]
    ELSE [h EXCEPT !.pc = "probe", !.i = i, !.timer = TRUE]

\* app.get('/health', ...): statuses = [] and the first probe
HealthRequest ==
    /\ proc = "up"
    /\ hl.pc # "probe"
    /\ hl' = HealthLoop([HIdle EXCEPT !.statuses = <<>>], 0)
    /\ UNCHANGED <<nCams, runs, file, rd, proc, sched, hist, calc, pubs, coin>>

\* a probe whose handler also writes the status report over the snapshot file
HealthProbeSettleWritesFile(out) ==
    /\ proc = "up"
    /\ hl.pc = "probe"
    /\ hl' = HealthLoop([hl EXCEPT !.statuses = Append(@, StatusEntry(hl.i, out))],
                        hl.i + 1)
    /\ file' = Written(<<>>)
    /\ UNCHANGED <<nCams, runs, rd, proc, sched, hist, calc, pubs, coin>>

\* await fetchWithTimeout(url, 5000) settles: statuses.push({... status ...})
HealthProbeSettle(out) ==
    /\ proc = "up"
    /\ hl.pc = "probe"
    /\ out = "abort" => hl.timer
    /\ hl' = HealthLoop([hl EXCEPT !.statuses = Append(@, StatusEntry(hl.i, out))],
                        hl.i + 1)
    /\ UNCHANGED <<nCams, runs, file, rd, proc, sched, hist, calc, pubs, coin>>

\* a fetch of a run settles; what it settled with is kept as the latest outcome
HealthFetch(r, out) ==
    /\ FetchSettle(r, out)
    /\ hist' = [hist EXCEPT ![r] = <<Outcome(out, NoBody)>>]
    /\ UNCHANGED <<sched, calc, hl, pubs, coin>>

\* a run saves: a save that succeeds is a publish of the current interval
HealthPublish(r, drawn, out) ==
    /\ OverlaySettle(r, drawn, out)
    /\ pubs' = IF out.kind = "ok" THEN pubs \cup {r} ELSE pubs
    /\ UNCHANGED <<sched, hist, calc, hl, coin>>

\* the timer fires while the first run is suspended: a new interval begins
HealthTick ==
    /\ Len(runs) = 1
    /\ Tick
    /\ hist' = Append(hist, <<>>)
    /\ pubs' = {}
    /\ UNCHANGED <<sched, calc, hl, coin>>

InitHealth ==
    /\ nCams \in TwinCams
    /\ runs = <<StartRun>>
    /\ file = NoFile
    /\ rd = Idle
    /\ proc = "up"
    /\ sched = "on"
    /\ hist = <<<<>>>>
    /\ calc = NoCalc
    /\ hl = HIdle
    /\ pubs = {}
    /\ coin = NoCoin

NextHealth ==
    \/ \E r \in DOMAIN runs, out \in FetchOutcomes : HealthFetch(r, out)
    \/ \E r \in DOMAIN runs, b \in Bodies : BufferSettle(r, b) /\ Rest
    \/ \E r \in DOMAIN runs : BufferFail(r) /\ Rest
    \/ \E r \in DOMAIN runs : LoadSettle(r) /\ Rest
    \/ \E r \in DOMAIN runs : DelaySettle(r) /\ Rest
    \/ \E r \in DOMAIN runs, drawn \in BOOLEAN, out \in SaveOutcomes :
          HealthPublish(r, drawn, out)
    \/ HealthTick
    \/ ProcessExit /\ Rest
    \/ HealthRequest
    \/ \E out \in FetchOutcomes : HealthProbeSettle(out)

SpecHealth == InitHealth /\ [][NextHealth]_vars

(* -------- the server before the retry loop: overlay without a catch ----- *)
\* the numbers of configured camera entries this server is run with
OldCams == {0, 1, 2}

\* steps 4-6 and the suspension at await loadImage(overlay.svg)
OldPostProcess(run) ==
    [run EXCEPT !.pc = "overlay", !.buf = NoBody,
                !.ops = @ \o <<Op("gray", -1), Op("tint", -1)>> \o Labels(0, nCams)]

RECURSIVE OldLoop(_, _)
\* for (let i = 0; i < 4; i++) { const cam = CAMERAS[i]; if (!cam) continue;
\* ... await fetch(url) }: plain fetch, no timeout
OldLoop(run, i) ==
    IF i >= SLOTS THEN OldPostProcess(run)
    ELSE IF i >= nCams THEN OldLoop(run, i + 1)
    ELSE [run EXCEPT !.pc = "fetch", !.i = i, !.buf = NoBody, !.waited = TRUE]

\* snapshotGrid from its first line to its first await
OldStart == OldLoop(NewRun, 0)

\* the per-camera catch block: a gray box, then the next slot
OldCatch(run) ==
    OldLoop([run EXCEPT !.ops = @ \o <<Op("placeholder", run.i)>>], run.i + 1)

\* await fetch(url) settles, then the res.ok test
OldFetchSettle(r, ok) ==
    /\ proc = "up"
    /\ runs[r].pc = "fetch"
    /\ runs' = Put(r, IF ok THEN [runs[r] EXCEPT !.pc = "buffer"]
                      ELSE OldCatch(runs[r]))
    /\ UNCHANGED <<nCams, file, rd, proc>>

\* await res.buffer() resolves, up to await loadImage(buf)
OldBufferSettle(r, b) ==
    /\ proc = "up"
    /\ runs[r].pc = "buffer"
    /\ runs' = Put(r, [runs[r] EXCEPT !.pc = "load", !.buf = b])
    /\ UNCHANGED <<nCams, file, rd, proc>>

\* await res.buffer() rejects
OldBufferFail(r) ==
    /\ proc = "up"
    /\ runs[r].pc = "buffer"
    /\ runs' = Put(r, OldCatch(runs[r]))
    /\ UNCHANGED <<nCams, file, rd, proc>>

\* await loadImage(buf) settles, then the crop and the draw
OldLoadSettle(r) ==
    /\ proc = "up"
    /\ runs[r].pc = "load"
    /\ runs' = Put(r, IF runs[r].buf.dec
                      THEN OldLoop([runs[r] EXCEPT !.ops = @ \o <<Op("image", runs[r].i)>>],
                                   runs[r].i + 1)
                      ELSE OldCatch(runs[r]))
    /\ UNCHANGED <<nCams, file, rd, proc>>

\* a run that was rejected by the load of the overlay
OverlayRejected == [Settled("rejected") EXCEPT !.err = "overlay"]

\* step 7, const svgImg = await loadImage(overlay.svg), has no try around it:
\* when it rejects, the call rejects and step 8 is never reached; otherwise the
\* overlay is drawn and step 8 saves
OldOverlaySettle(r, loaded, out) ==
    /\ proc = "up"
    /\ runs[r].pc = "overlay"
    /\ IF loaded
       THEN /\ file' = WriteFileSync(Snapshot(DrawOverlay(runs[r], TRUE).ops), out)
            /\ runs' = Put(r, Settled(IF out.kind = "ok" THEN "done" ELSE "rejected"))
       ELSE /\ file' = file
            /\ runs' = Put(r, OverlayRejected)
    /\ UNCHANGED <<nCams, rd, proc>>

\* setInterval(snapshotGrid, INTERVAL): no fetch of this server has a timeout
OldTick ==
    /\ proc = "up"
    /\ Len(runs) < MaxRuns
    /\ \A r \in DOMAIN runs : Active(runs[r]) => runs[r].waited
    /\ runs' = Append(runs, OldStart)
    /\ UNCHANGED <<nCams, file, rd, proc>>

\* snapshotGrid(); setInterval(snapshotGrid, INTERVAL); app.listen(PORT)
InitOld ==
    /\ nCams \in OldCams
    /\ runs = <<OldStart>>
    /\ file = NoFile
    /\ rd = Idle
    /\ proc = "up"
    /\ sched = "on"
    /\ hist = <<>>
    /\ calc = NoCalc
    /\ hl = HIdle
    /\ pubs = {}
    /\ coin = NoCoin

NextOld ==
    \/ \E r \in DOMAIN runs, ok \in BOOLEAN : OldFetchSettle(r, ok) /\ Rest
    \/ \E r \in DOMAIN runs, b \in Bodies : OldBufferSettle(r, b) /\ Rest
    \/ \E r \in DOMAIN runs : OldBufferFail(r) /\ Rest
    \/ \E r \in DOMAIN runs : OldLoadSettle(r) /\ Rest
    \/ \E r \in DOMAIN runs, loaded \in BOOLEAN, out \in SaveOutcomes :
          OldOverlaySettle(r, loaded, out) /\ Rest
    \/ OldTick /\ Rest
    \/ ProcessExit /\ Rest

SpecOld == InitOld /\ [][NextOld]_vars

(* ------------------- GET /health on its own ----------------------------- *)
\* requests to /health of a server with any number of configured cameras
InitProbe ==
    /\ nCams \in 0..MaxCams
    /\ runs = <<>>
    /\ file = NoFile
    /\ rd = Idle
    /\ proc = "up"
    /\ sched = "on"
    /\ hist = <<>>
    /\ calc = NoCalc
    /\ hl = HIdle
    /\ pubs = {}
    /\ coin = NoCoin

NextProbe ==
    \/ HealthRequest
    \/ \E out \in FetchOutcomes : HealthProbeSettle(out)

SpecProbe == InitProbe /\ [][NextProbe]_vars

(* --------------- the coin scripts (coindeploy.js, deployCoin.js) -------- *)
\* the revisions of the scripts: coindeploy.js with Lighthouse, with Pinata,
\* with Infura, coinDeploy.js that pins the snapshot file, and deployCoin.js
Variants == {"lighthouse", "pinata", "infura", "pinfile", "deploy"}

\* the environment variables a revision requires
Required(v) ==
    IF v = "lighthouse"
    THEN {"RPC_URL", "PRIVATE_KEY", "COIN_ADDRESS", "LIGHTHOUSE_API_KEY", "IMAGE_URL"}
    ELSE IF v = "pinata"
    THEN {"RPC_URL", "PRIVATE_KEY", "COIN_ADDRESS", "PINATA_API_KEY",
          "PINATA_API_SECRET", "IMAGE_URL"}
    ELSE IF v = "infura"
    THEN {"RPC_URL", "PRIVATE_KEY", "COIN_ADDRESS", "INFURA_IPFS_PROJECT_ID",
          "INFURA_IPFS_PROJECT_SECRET", "IMAGE_URL"}
    ELSE IF v = "pinfile"
    THEN {"RPC_URL", "PRIVATE_KEY", "COIN_ADDRESS", "PINATA_API_KEY",
          "PINATA_API_SECRET"}
    ELSE {"RPC_URL", "PRIVATE_KEY", "SALE_RECIPIENT", "METADATA_URI"}

\* what process.env holds for a name: nothing, the empty string, or a value
EnvValues == {"unset", "empty", "set"}

\* a check that only asks whether the variable is defined
MissingUnsetOnly(v, env) == {k \in Required(v) : env[k] = "unset"}

\* requiredEnvVars.filter((k) => !process.env[k]) and the chains of !NAME ||:
\* undefined and the empty string are both falsy
Missing(v, env) == {k \in Required(v) : env[k] \in {"unset", "empty"}}

\* executions of a script in one behaviour (it is started again by cron)
MaxExecs == 2
\* the least number of bytes the Lighthouse revision takes for an image
MINIMAGE == 1000
\* byte lengths of the downloaded body
Sizes == {0, 999, 1000, 5000}

\* what an upload returns: the identifier of the document it stored
Cid(kind, ex) == [kind |-> kind, ex |-> ex]
NoCid == Cid("none", 0)
\* `ipfs://${cid}`
Uri(cid) == [scheme |-> "ipfs", cid |-> cid]
NoUri == [scheme |-> "none", cid |-> NoCid]
\* a stored document: an image (no image field) or a metadata JSON
Doc(cid, image) == [cid |-> cid, image |-> image]

\* a script about to be loaded by node, in execution ex
Script(v, env, ex, chain, pinned) ==
    [pc |-> "start", variant |-> v, env |-> env, ex |-> ex, size |-> 0,
     imageCID |-> NoCid, metadata |-> NoUri, metadataCID |-> NoCid,
     newURI |-> NoUri, acts |-> <<>>, code |-> -1, err |-> "",
     chain |-> chain, pinned |-> pinned]

\* process.exit(code), or the end of the script
Exit(c, code, err) == [c EXCEPT !.pc = "exited", !.code = code, !.err = err]

\* the script calls out (a client is created, a request or a transaction is
\* sent) and, for pc other than the current one, suspends there
Issue(c, act, pc) == [c EXCEPT !.acts = Append(@, act), !.pc = pc]

CoinOnly == UNCHANGED <<nCams, runs, file, rd, proc, sched, hist, calc, hl, pubs>>

\* the module top level: the check of the environment, the clients, and main()
\* (deployCoin()) up to its first await
CoinLoad ==
    /\ coin.pc = "start"
    /\ coin' = IF Missing(coin.variant, coin.env) # {}
               THEN Exit(coin, 1, "env")
               ELSE LET c == Issue(coin, "clients", coin.pc)
                    IN IF c.variant = "pinfile" THEN Issue(c, "uploadImage", "pinImage")
                       ELSE IF c.variant = "deploy" THEN Issue(c, "createCoin", "create")
                       ELSE Issue(c, "download", "download")
    /\ CoinOnly

\* await fetch(imageUrlWithTimestamp) settles, then the imgRes.ok test
CoinDownloadSettle(ok) ==
    /\ coin.pc = "download"
    /\ coin' = IF ok THEN [coin EXCEPT !.pc = "body"] ELSE Exit(coin, 1, "download")
    /\ CoinOnly

\* await imgRes.arrayBuffer() (imgRes.buffer()) resolves with size bytes; only
\* the Lighthouse revision refuses a body shorter than 1000 bytes
CoinBodySettle(size) ==
    /\ coin.pc = "body"
    /\ coin' = IF coin.variant = "lighthouse" /\ size < MINIMAGE
               THEN Exit([coin EXCEPT !.size = size], 1, "size")
               ELSE Issue([coin EXCEPT !.size = size], "uploadImage", "pinImage")
    /\ CoinOnly

\* the body stream breaks
CoinBodyFail ==
    /\ coin.pc = "body"
    /\ coin' = Exit(coin, 1, "body")
    /\ CoinOnly

\* after the image is stored: coinDeploy.js makes newURI of the image hash and
\* calls updateCoinURI; the others build the metadata and upload it
AfterImage(c, cid) ==
    IF c.variant = "pinfile"
    THEN Issue([c EXCEPT !.newURI = Uri(cid)], "updateCoinURI", "update")
    ELSE Issue([c EXCEPT !.metadata = Uri(cid)], "uploadMetadata", "pinMeta")

\* the upload of the image settles
CoinPinImageSettle(ok) ==
    /\ coin.pc = "pinImage"
    /\ coin' = IF ok
               THEN LET cid == Cid("image", coin.ex)
                    IN AfterImage([coin EXCEPT !.imageCID = cid,
                                               !.pinned = @ \cup {Doc(cid, NoUri)}],
                                  cid)
               ELSE Exit(coin, 1, "uploadImage")
    /\ CoinOnly

\* newURI = `ipfs://${metadataCID}` and the call of updateCoinURI
CallUpdate(c) ==
    Issue([c EXCEPT !.newURI = Uri(c.metadataCID)], "updateCoinURI", "update")

\* the upload of the metadata settles; the Lighthouse and Infura revisions then
\* wait some seconds
CoinPinMetaSettle(ok) ==
    /\ coin.pc = "pinMeta"
    /\ coin' = IF ok
               THEN LET cid == Cid("metadata", coin.ex)
                        c == [coin EXCEPT !.metadataCID = cid,
                                          !.pinned = @ \cup {Doc(cid, coin.metadata)}]
                    IN IF c.variant = "pinata" THEN CallUpdate(c)
                       ELSE [c EXCEPT !.pc = "wait"]
               ELSE Exit(coin, 1, "uploadMetadata")
    /\ CoinOnly

\* the propagation delay is over
CoinWaitSettle ==
    /\ coin.pc = "wait"
    /\ coin' = CallUpdate(coin)
    /\ CoinOnly

\* await updateCoinURI(...) settles: the transaction went through and the URI
\* of the coin is newURI, or it threw
CoinUpdateSettle(ok) ==
    /\ coin.pc = "update"
    /\ coin' = IF ok
               THEN Exit([coin EXCEPT !.chain = [uri |-> coin.newURI, ex |-> coin.ex]],
                         0, "")
               ELSE Exit(coin, 1, "updateCoinURI")
    /\ CoinOnly

\* await createCoin(...) settles
CoinCreateSettle(ok) ==
    /\ coin.pc = "create"
    /\ coin' = IF ok THEN Exit(coin, 0, "") ELSE Exit(coin, 1, "createCoin")
    /\ CoinOnly

\* the script is started again, with the same environment
CoinRerun ==
    /\ coin.pc = "exited"
    /\ coin.ex < MaxExecs
    /\ coin' = Script(coin.variant, coin.env, coin.ex + 1, coin.chain, coin.pinned)
    /\ CoinOnly

InitCoin ==
    /\ nCams = 0
    /\ runs = <<>>
    /\ file = NoFile
    /\ rd = Idle
    /\ proc = "up"
    /\ sched = "on"
    /\ hist = <<>>
    /\ calc = NoCalc
    /\ hl = HIdle
    /\ pubs = {}
    /\ \E v \in Variants : \E env \in [Required(v) -> EnvValues] :
          coin = Script(v, env, 1, [uri |-> NoUri, ex |-> 0], {})

NextCoin ==
    \/ CoinLoad
    \/ \E ok \in BOOLEAN : CoinDownloadSettle(ok)
    \/ \E size \in Sizes : CoinBodySettle(size)
    \/ CoinBodyFail
    \/ \E ok \in BOOLEAN : CoinPinImageSettle(ok)
    \/ \E ok \in BOOLEAN : CoinPinMetaSettle(ok)
    \/ CoinWaitSettle
    \/ \E ok \in BOOLEAN : CoinUpdateSettle(ok)
    \/ \E ok \in BOOLEAN : CoinCreateSettle(ok)
    \/ CoinRerun

SpecCoin == InitCoin /\ [][NextCoin]_vars

(* ------------------------------ claims --------------------------------- *)
ActiveRuns == {r \in DOMAIN runs : Active(runs[r])}

\* C1: at no time are two runs of the pipeline active at once.
NoOverlappingRuns == Cardinality(ActiveRuns) <= 1

IsSnapshot(data) ==
    /\ Len(data) = FileChunks
    /\ \A k \in 1..Len(data) : data[k] = data[1]

\* C2: every response of /latest.png that carries a file carries one complete
\* snapshot, the previous or the new one: never an empty, truncated or mixed
\* file (stated for publishes that all succeeded; C5 is about the failed ones).
ReaderSeesWholeSnapshot ==
    /\ rd.pc = "sent" /\ rd.status = 200
    /\ \A r \in DOMAIN runs : runs[r].pc # "rejected"
    => IsSnapshot(rd.got)

\* C3: a trigger that arrives while a run is active starts no run.
TriggerWhileActiveSkipped == [][ActiveRuns # {} => Len(runs') = Len(runs)]_vars

\* C4: no error raised inside a run escapes the run as a rejection nothing
\* handles, and the process stays up.
RunErrorsCaught == proc = "up" /\ \A r \in DOMAIN runs : runs[r].pc # "rejected"

\* C5: a publish step that fails leaves the published file as it was.
FailedPublishKeepsFile ==
    [][(\E r \in DOMAIN runs : runs[r].pc = "overlay" /\ runs'[r].pc = "rejected")
        /\ file.exists => file' = file]_vars

Tiles(ops, c) == {k \in 1..Len(ops) : ops[k].slot = c /\ ops[k].op \in {"image", "placeholder"}}

\* C6: when the compositing loop has ended, each of the four cells holds exactly
\* one tile, the live image or the placeholder.
FourCellsPopulated ==
    \A r \in DOMAIN runs :
        runs[r].pc = "overlay" =>
            \A c \in 0..(SLOTS - 1) : Cardinality(Tiles(runs[r].ops, c)) = 1

\* C7: a slot with no configured entry gets a placeholder tile, and nothing is
\* fetched, drawn or labelled for an entry beyond the fourth.
UnconfiguredSlotsGetPlaceholder ==
    \A r \in DOMAIN runs :
        /\ \A k \in 1..Len(runs[r].ops) : runs[r].ops[k].slot < SLOTS
        /\ runs[r].pc = "overlay" =>
              \A c \in 0..(SLOTS - 1) :
                  c >= nCams => \E k \in 1..Len(runs[r].ops) :
                                   runs[r].ops[k] = Op("placeholder", c)

InSlotLoop(run) == run.pc \in {"fetch", "buffer", "load", "delay"}

Configured == {c \in 0..(SLOTS - 1) : c < nCams}

\* C8: no failure of a source ends the run: a step of the slot loop leaves the
\* run active, and when the loop is left every configured slot has been
\* processed and post-processing has been done, the run waiting to publish.
SlotFailuresStayInSlot ==
    [][\A r \in DOMAIN runs :
          InSlotLoop(runs[r]) =>
              /\ Active(runs'[r])
              /\ ~InSlotLoop(runs'[r]) =>
                    /\ runs'[r].pc = "overlay"
                    /\ \A c \in Configured : Cardinality(Tiles(runs'[r].ops, c)) = 1
                    /\ \E k \in 1..Len(runs'[r].ops) : runs'[r].ops[k].op = "gray"]_vars

\* a failed slot has its placeholder, a later slot its live image, and the run
\* is past post-processing
SlotFailureThenLiveSlot ==
    \E r \in DOMAIN runs :
        /\ runs[r].pc = "overlay"
        /\ Tiles(runs[r].ops, 0) # {} /\ Tiles(runs[r].ops, 1) # {}
        /\ \E k \in Tiles(runs[r].ops, 0) : runs[r].ops[k].op = "placeholder"
        /\ \E k \in Tiles(runs[r].ops, 1) : runs[r].ops[k].op = "image"

\* the acceptance rule of the claim: the minimum length and one of the signatures
\* JPEG ff d8 ff, PNG 89 50 4e 47, GIF 47 49 46
Acceptable(b) ==
    /\ b.len >= 100
    /\ \/ StartsWith(b.hdr, <<255, 216, 255>>)
       \/ StartsWith(b.hdr, <<137, 80, 78, 71>>)
       \/ StartsWith(b.hdr, <<71, 73, 70>>)

DrawsImage(old, new) ==
    \E k \in 1..Len(new.ops) : k > Len(old.ops) /\ new.ops[k].op = "image"

\* C9: only an acceptable body is passed to the decoder or drawn, and an attempt
\* whose body is refused uses up one attempt of the retry budget.
OnlyAcceptableBodiesDecoded ==
    [][\A r \in DOMAIN runs :
          /\ runs'[r].pc = "load" => Acceptable(runs'[r].buf)
          /\ runs'[r] # runs[r] /\ DrawsImage(runs[r], runs'[r]) =>
                runs[r].pc = "load" /\ Acceptable(runs[r].buf)
          /\ runs[r].pc = "buffer" /\ runs'[r].pc \notin {"buffer", "load"} =>
                \/ runs'[r].pc = "delay" /\ runs'[r].retries = runs[r].retries - 1
                \/ runs[r].retries = 1 /\ runs'[r].ops # runs[r].ops
                      /\ runs'[r].ops[Len(runs[r].ops) + 1] = Op("placeholder", runs[r].i)
    ]_vars

\* a body was refused for its signature and the attempt is used up
RefusedBodyUsedAttempt ==
    \E r \in DOMAIN runs :
        runs[r].pc = "delay" /\ runs[r].err = "format" /\ runs[r].retries = RETRIES - 1

\* C10: a slot is given up (its placeholder drawn) only after the initial attempt
\* and the configured number of additional attempts have all been made.
GivenUpAfterAllAttempts ==
    [][\A r \in DOMAIN runs :
          (runs'[r].ops # runs[r].ops /\ Len(runs'[r].ops) > Len(runs[r].ops)
             /\ runs'[r].ops[Len(runs[r].ops) + 1].op = "placeholder")
          => runs[r].att = 1 + RETRIES]_vars

\* C11: a fetch attempt is under its abort timer for as long as it lasts, the
\* reading of the body included, so no attempt outlasts the fetch timeout.
AttemptUnderAbortTimer ==
    \A r \in DOMAIN runs : runs[r].pc \in {"fetch", "buffer"} => runs[r].timer

\* C12: the periodic timer is installed whatever the first run does: once the
\* first call has settled, with a snapshot or with an error, the timer is on.
TimerInstalledWhateverFirstRun ==
    runs[1].pc \in {"done", "caught", "rejected"} => sched = "on"

\* every canvas there is: those of the runs and those in the published file
Canvases == {runs[r].ops : r \in DOMAIN runs} \cup {file.data[k] : k \in DOMAIN file.data}

InOrder(ops, stage(_)) ==
    \A k, l \in 1..Len(ops) : k < l => stage(ops[k].op) <= stage(ops[l].op)

Once(ops, name) == Cardinality({k \in 1..Len(ops) : ops[k].op = name}) <= 1

\* the order the claim gives: labels with the tiles, before the grayscale step
ClaimedStage(op) ==
    CASE op = "fill" -> 0
      [] op \in {"image", "placeholder", "status", "label"} -> 1
      [] op = "gray" -> 2
      [] op = "tint" -> 3
      [] op = "overlay" -> 4

\* the order of snapshotGrid: labels after the tint, before the watermark
CodeStage(op) ==
    CASE op = "fill" -> 0
      [] op \in {"image", "placeholder", "status"} -> 1
      [] op = "gray" -> 2
      [] op = "tint" -> 3
      [] op = "label" -> 4
      [] op = "overlay" -> 5

\* C13 (as stated): tiles, placeholder text and location labels are drawn first,
\* then grayscale, then the tint, then the watermark last.
LabelsBeforeGrayscale == \A c \in Canvases : InOrder(c, ClaimedStage)

\* C13 (amended): tiles and placeholder text are drawn first, then grayscale,
\* then the tint, then the location labels, then the watermark last; each of
\* grayscale, tint and watermark at most once and nothing after the watermark.
LabelsAfterTint ==
    \A c \in Canvases :
        /\ InOrder(c, CodeStage)
        /\ Once(c, "gray") /\ Once(c, "tint") /\ Once(c, "overlay")

\* a published snapshot with a live tile, a placeholder, labels and the watermark
PublishedWithLabelsAndOverlay ==
    /\ file.exists /\ Len(file.data) = FileChunks
    /\ \A m \in {"image", "placeholder", "label", "gray", "tint", "overlay"} :
          \E k \in 1..Len(file.data[1]) : file.data[1][k].op = m

Grayscaled == calc.fn \in {"GrayscaleAvg", "GrayscaleLuma"}

\* C14: after the grayscale step a pixel has equal red, green and blue values
\* and the alpha it had before.
GrayscaleEqualChannels ==
    Grayscaled =>
        /\ calc.out.r = calc.out.g /\ calc.out.g = calc.out.b
        /\ calc.out.a = calc.in.a

\* a coloured, half-transparent pixel has gone through step 4 of snapshotGrid
ColouredPixelGrayscaled ==
    /\ calc.fn = "GrayscaleAvg"
    /\ calc.in.r # calc.in.g /\ calc.in.g # calc.in.b /\ calc.in.a = 128
    /\ calc.out.r = 128

\* C15: the value the grayscale step stores is the luma
\* 0.299 r + 0.587 g + 0.114 b of the pixel, to the nearest 8-bit value.
GrayscaleIsLuma ==
    Grayscaled =>
        LET luma == 299 * calc.in.r + 587 * calc.in.g + 114 * calc.in.b
            off == 1000 * calc.out.r - luma
        IN off <= 500 /\ -off <= 500

\* the destination the evaluated variant gives slot j
TileOf(j) == IF calc.fn = "DestRect" THEN DestRect(j) ELSE GenDestRect(j)

Disjoint(a, b) ==
    \/ a.x + a.w <= b.x \/ b.x + b.w <= a.x
    \/ a.y + a.h <= b.y \/ b.y + b.h <= a.y

\* C16: the tile of slot i in 0..3 is drawn into the square of origin
\* ((i mod 2) S/2 + BORDER, (i div 2) S/2 + BORDER) and side S/2 - 2 BORDER; the
\* square lies inside the S x S canvas, is disjoint from those of the other
\* slots, and is inset by BORDER from the four sides of its cell.
TileInsetInItsCell ==
    calc.fn \in {"DestRect", "GenDestRect"} /\ calc.in < SLOTS =>
        LET i == calc.in
            t == calc.out
            cellX == (i % 2) * (SIZE \div 2)
            cellY == (i \div 2) * (SIZE \div 2)
        IN /\ t = Rect(cellX + BORDER, cellY + BORDER,
                       SIZE \div 2 - 2 * BORDER, SIZE \div 2 - 2 * BORDER)
           /\ t.x >= 0 /\ t.y >= 0 /\ t.x + t.w <= SIZE /\ t.y + t.h <= SIZE
           /\ \A j \in 0..(SLOTS - 1) : j # i => Disjoint(t, TileOf(j))
           /\ t.x - cellX = BORDER /\ t.y - cellY = BORDER
           /\ cellX + SIZE \div 2 - (t.x + t.w) = BORDER
           /\ cellY + SIZE \div 2 - (t.y + t.h) = BORDER

\* the region of a cell the evaluated variant draws tiles into
Inner == IF calc.fn = "Crop" THEN DestRect(0) ELSE GenDestRect(0)

\* C17: the source rectangle of a tile is the square of side min(w, h) at
\* ((w - side) / 2, (h - side) / 2): it lies within the image, its margins are
\* equal on opposite sides, and it is scaled to the whole inner region.
CentreSquareCrop ==
    calc.fn \in {"Crop", "GenCrop"} =>
        LET w == calc.in.w
            h == calc.in.h
            c == calc.out
            side == IF w < h THEN w ELSE h
        IN /\ c.sw = side /\ c.sh = side
           /\ c.sx2 = w - side /\ c.sy2 = h - side
           /\ c.sx2 >= 0 /\ c.sy2 >= 0
           /\ c.sx2 + 2 * c.sw <= 2 * w /\ c.sy2 + 2 * c.sh <= 2 * h
           /\ 2 * w - (c.sx2 + 2 * c.sw) = c.sx2
           /\ 2 * h - (c.sy2 + 2 * c.sh) = c.sy2
           /\ c.dw = Inner.w /\ c.dh = Inner.h

LabelsOf(ops, c) == {k \in 1..Len(ops) : ops[k] = Op("label", c)}

\* C18: when the slots of a run have been processed, each configured slot has its
\* location label drawn exactly once, whether its fetch succeeded or failed.
EverySlotLabelledOnce ==
    \A r \in DOMAIN runs :
        runs[r].pc \in {"overlay", "gopen", "gwrite"} =>
            \A c \in Configured : Cardinality(LabelsOf(runs[r].ops, c)) = 1

Published == \E r \in DOMAIN runs : runs[r].pc = "done"

\* C20: once a run has published a snapshot the file stays in place, whatever
\* later runs do, and every request answered from then on is answered with the
\* file, never with not-found.
ServedOncePublished ==
    [][Published =>
          /\ file.exists
          /\ rd' # rd /\ rd'.pc = "sent" => rd'.status = 200]_vars

\* a request is answered with the file after one run published and a later run
\* failed while saving
ServedAfterFailedRun ==
    /\ Published
    /\ \E r \in DOMAIN runs : runs[r].pc = "rejected"
    /\ rd.pc = "sent" /\ rd.status = 200 /\ rd.got = file.data
    /\ Len(file.data) < FileChunks

HealthStep == hl' # hl

\* C21: a step of a /health request, wherever it falls among the steps of the
\* runs, changes neither the published file nor the state of any run (canvas,
\* retry counters, outcome).
HealthLeavesRunsAndFile == [][HealthStep => file' = file /\ runs' = runs]_vars

\* a /health request was answered while a run was retrying a slot, after an
\* earlier run had published
HealthAnsweredDuringRun ==
    /\ hl.pc = "sent" /\ Len(hl.statuses) = nCams /\ nCams > 0
    /\ file.exists
    /\ \E r \in DOMAIN runs : runs[r].pc = "delay"

\* C22: between two consecutive triggers of the timer at most one run publishes,
\* also when a run is still executing at a trigger.
OnePublishPerInterval == Cardinality(pubs) <= 1

\* the step of a call of generateGrid in which the fetch, the body read or the
\* decoding of the current camera fails
GenFailed(old, new) ==
    /\ new # old
    /\ \/ old.pc = "gfetch" /\ new.pc # "gbuffer"
       \/ old.pc = "gbuffer" /\ new.pc # "gload"
       \/ old.pc = "gload" /\ ~old.buf.dec

TimeoutFires(r) ==
    /\ runs[r].pc = "fetch" /\ runs'[r] # runs[r]
    /\ hist'[r] = <<Outcome("abort", NoBody)>>

\* C24: a timeout that fires for one attempt ends that attempt only: the other
\* runs, their attempts and a /health probe in flight are as they were, and the
\* run goes on with the retry delay, with the next slot or with post-processing.
TimeoutAbortsOnlyItsAttempt ==
    [][\A r \in DOMAIN runs :
          TimeoutFires(r) =>
              /\ \A q \in DOMAIN runs : q # r => runs'[q] = runs[q]
              /\ hl' = hl /\ file' = file
              /\ Active(runs'[r])
              /\ \/ runs'[r].pc = "delay" /\ runs'[r].i = runs[r].i
                 \/ runs'[r].pc = "fetch" /\ runs'[r].i > runs[r].i
                 \/ runs'[r].pc = "overlay"]_vars

\* an attempt of the second run was aborted while the first run was reading a
\* body and a /health probe was in flight, and both are still in flight
AbortedNextToOthersInFlight ==
    /\ Len(runs) = 2
    /\ runs[2].pc = "delay" /\ runs[2].err = "abort"
    /\ runs[1].pc = "buffer"
    /\ hl.pc = "probe" /\ hl.timer

Min(a, b) == IF a < b THEN a ELSE b

\* the slot a drawn rectangle belongs to
DrawnSlot == IF calc.fn = "GenLabelBox" THEN calc.in.i ELSE calc.in

\* C25: what is drawn for slot i (the tile, the label box) changes only pixels
\* of the canvas that lie in the cell of slot i.
DrawnInsideOwnCell ==
    calc.fn \in {"DestRect", "GenDestRect", "GenLabelBox"} /\ DrawnSlot < SLOTS =>
        LET t == calc.out
            cellX == (DrawnSlot % 2) * GRID
            cellY == (DrawnSlot \div 2) * GRID
        IN /\ t.x >= cellX /\ t.y >= cellY
           /\ Min(t.x + t.w, SIZE) <= cellX + GRID
           /\ Min(t.y + t.h, SIZE) <= cellY + GRID

TileOps == {"image", "placeholder", "status"}

\* C26: the black fill is the first drawing operation on the canvas of a run
\* (and is not repeated), the grayscale step is taken only when each of the four
\* slots has its tile, the live image or the placeholder, and no tile is drawn
\* once post-processing has begun.
PostProcessingAfterFourTiles ==
    \A r \in DOMAIN runs :
        LET ops == runs[r].ops
        IN Active(runs[r]) =>
              /\ ops # <<>> /\ ops[1] = Op("fill", -1)
              /\ \A k \in 2..Len(ops) : ops[k].op # "fill"
              /\ \A k \in 1..Len(ops) :
                    ops[k].op = "gray" =>
                        /\ \A c \in 0..(SLOTS - 1) :
                              \E j \in 1..(k - 1) : ops[j].slot = c /\ ops[j].op \in TileOps
                        /\ \A l \in (k + 1)..Len(ops) : ops[l].op \notin TileOps

DrawsPlaceholder(old, new) ==
    \E k \in 1..Len(new.ops) : k > Len(old.ops) /\ new.ops[k].op = "placeholder"

LeavesSlot(old, new) == new.pc = "overlay" \/ new.i > old.i

\* C27: a configured slot gets the live image or the placeholder, never both and
\* neither twice: after the image no further attempt is made for the slot, and
\* the placeholder is drawn only when the last attempt the loop permits failed.
OneOutcomePerSlot ==
    [][\A r \in DOMAIN runs :
          /\ \A c \in Configured : Cardinality(Tiles(runs'[r].ops, c)) <= 1
          /\ runs'[r].pc = "overlay" =>
                \A c \in Configured : Cardinality(Tiles(runs'[r].ops, c)) = 1
          /\ runs'[r] # runs[r] /\ DrawsImage(runs[r], runs'[r]) =>
                /\ LeavesSlot(runs[r], runs'[r])
                /\ ~DrawsPlaceholder(runs[r], runs'[r])
          /\ runs'[r] # runs[r] /\ DrawsPlaceholder(runs[r], runs'[r]) =>
                /\ runs[r].pc \in {"fetch", "buffer", "load"}
                /\ runs[r].retries = 1
                /\ LeavesSlot(runs[r], runs'[r])]_vars

\* the first slot has its live image and the second slot was given up
LiveSlotThenGivenUpSlot ==
    \E r \in DOMAIN runs :
        /\ runs[r].pc = "overlay" /\ nCams = 2
        /\ \E k \in Tiles(runs[r].ops, 0) : runs[r].ops[k].op = "image"
        /\ \E k \in Tiles(runs[r].ops, 1) : runs[r].ops[k].op = "placeholder"

\* C28: the retry delay is waited only between a failed attempt and the next
\* attempt of the same slot: a delay begins only at the failure of an attempt
\* that is not the last one, with nothing drawn, and ends in the next attempt of
\* the same slot; a further attempt of a slot begins only at the end of a delay,
\* so a slot with n attempts has n - 1 delays.
DelayOnlyBetweenAttempts ==
    [][\A r \in DOMAIN runs :
          /\ runs'[r].pc = "delay" /\ runs[r].pc # "delay" =>
                /\ runs[r].pc \in {"fetch", "buffer", "load"}
                /\ runs'[r].i = runs[r].i /\ runs'[r].att = runs[r].att
                /\ runs'[r].retries > 0 /\ ~runs'[r].success
                /\ runs'[r].ops = runs[r].ops
          /\ runs[r].pc = "delay" /\ runs'[r] # runs[r] =>
                /\ runs'[r].pc = "fetch"
                /\ runs'[r].i = runs[r].i /\ runs'[r].att = runs[r].att + 1
          /\ runs'[r].pc = "fetch" /\ runs'[r].att > 1 /\ runs'[r] # runs[r] =>
                runs[r].pc = "delay"]_vars

\* the second attempt of the second slot has begun, after the delay that
\* followed the failure of the first
SecondAttemptAfterDelay ==
    \E r \in DOMAIN runs :
        runs[r].pc = "fetch" /\ runs[r].att = 2 /\ runs[r].retries = 1 /\ runs[r].i = 1

\* C29: within a run the slots are handled one after another in index order:
\* while the run is in its slot loop every configured slot before the current
\* one has its tile and no later slot has anything drawn, the current slot only
\* changes to the next one, with a first attempt; the request in flight, if
\* any, is the one of the current slot.
SlotsOneAfterAnother ==
    [][\A r \in DOMAIN runs :
          InSlotLoop(runs'[r]) =>
              /\ \A c \in Configured :
                    /\ c < runs'[r].i => Cardinality(Tiles(runs'[r].ops, c)) = 1
                    /\ c >= runs'[r].i =>
                          \A k \in 1..Len(runs'[r].ops) : runs'[r].ops[k].slot # c
              /\ InSlotLoop(runs[r]) /\ runs'[r].i # runs[r].i =>
                    /\ runs'[r].i = runs[r].i + 1
                    /\ runs'[r].pc = "fetch" /\ runs'[r].att = 1]_vars

\* three slots have their tiles and the first attempt of the fourth is in flight
FourthSlotStarted ==
    \E r \in DOMAIN runs :
        /\ runs[r].pc = "fetch" /\ runs[r].i = 3 /\ runs[r].att = 1
        /\ \A c \in 0..2 : Cardinality(Tiles(runs[r].ops, c)) = 1

HasOp(ops, name) == \E k \in 1..Len(ops) : ops[k].op = name

\* C30: a run writes the published file at most once, as its last step, and what
\* it writes is the encoding of its canvas after tiles, grayscale, tint, labels
\* and the watermark step; no canvas from before post-processing is published
\* and a run that cannot start the save writes nothing.
PublishesFinalCanvasOnce ==
    [][file' # file =>
          \E r \in DOMAIN runs :
              /\ runs[r].pc = "overlay" /\ ~Active(runs'[r])
              /\ \A q \in DOMAIN runs : q # r => runs'[q] = runs[q]
              /\ \E drawn \in BOOLEAN :
                    LET final == DrawOverlay(runs[r], drawn).ops
                    IN /\ \A k \in DOMAIN file'.data : file'.data[k] = final
                       /\ HasOp(final, "gray") /\ HasOp(final, "tint")
                       /\ \A c \in Configured :
                             /\ Cardinality(Tiles(final, c)) = 1
                             /\ Cardinality(LabelsOf(final, c)) = 1
                       /\ drawn => final[Len(final)] = Op("overlay", -1)]_vars

\* a run has published its canvas, watermark included, and has ended
RunPublishedAndEnded ==
    /\ runs[1].pc = "done"
    /\ Len(file.data) = FileChunks
    /\ HasOp(file.data[FileChunks], "overlay") /\ HasOp(file.data[FileChunks], "image")

\* C31: a failure to load or draw the watermark overlay never aborts the run:
\* no call of snapshotGrid ends rejected by the load of overlay.svg, the
\* snapshot is still published, without the watermark.
OverlayFailureDoesNotAbort ==
    \A r \in DOMAIN runs : runs[r] # OverlayRejected

UpdateScripts == {"lighthouse", "pinata", "infura"}

Called(c, act) == \E k \in 1..Len(c.acts) : c.acts[k] = act

\* act a was made before act b
Before(c, a, b) ==
    \E j, k \in 1..Len(c.acts) : j < k /\ c.acts[j] = a /\ c.acts[k] = b

\* C33: in the coin update script updateCoinURI is called only after, in this
\* order, the download succeeded with at least 1000 bytes, the image upload
\* returned a CID and the metadata upload returned a CID; when one of these
\* steps fails the script exits with code 1 and never calls updateCoinURI.
UpdateOnlyAfterCheckedDownloadAndUploads ==
    coin.variant \in UpdateScripts =>
        /\ Called(coin, "updateCoinURI") =>
              /\ coin.size >= MINIMAGE
              /\ coin.imageCID = Cid("image", coin.ex)
              /\ coin.metadataCID = Cid("metadata", coin.ex)
              /\ Before(coin, "download", "uploadImage")
              /\ Before(coin, "uploadImage", "uploadMetadata")
              /\ Before(coin, "uploadMetadata", "updateCoinURI")
        /\ coin.err \in {"download", "body", "size", "uploadImage", "uploadMetadata"} =>
              /\ coin.pc = "exited" /\ coin.code = 1
              /\ ~Called(coin, "updateCoinURI")

\* a required variable of the script is missing or empty
SomeAbsent == \E k \in Required(coin.variant) : coin.env[k] # "set"

\* C34: when a required environment variable is missing or empty, whichever
\* and however many, the script exits with code 1 at once: no client is
\* created, nothing is downloaded or uploaded, no transaction is sent.
MissingEnvExitsBeforeAnyAction ==
    SomeAbsent =>
        /\ coin.pc = "start" \/ (coin.pc = "exited" /\ coin.code = 1 /\ coin.err = "env")
        /\ coin.acts = <<>>
        /\ coin.pinned = {}
        /\ coin.chain.uri = NoUri

\* C34 witness: the Pinata revision, started a second time with IMAGE_URL
\* empty and every other variable set, has exited with code 1.
ExitedOnEmptyImageUrl ==
    /\ coin.variant = "pinata"
    /\ coin.env["IMAGE_URL"] = "empty"
    /\ \A k \in Required("pinata") \ {"IMAGE_URL"} : coin.env[k] = "set"
    /\ coin.ex = MaxExecs
    /\ coin.pc = "exited" /\ coin.code = 1

\* C35: the URI a coin update set on-chain refers to the metadata document
\* uploaded in the same execution, whose image field refers to the image
\* uploaded in the same execution; it never refers to the image itself.
UriIsMetadataOfSameExecution ==
    coin.chain.ex > 0 =>
        LET meta == Cid("metadata", coin.chain.ex)
            image == Cid("image", coin.chain.ex)
        IN /\ coin.chain.uri = Uri(meta)
           /\ Doc(meta, Uri(image)) \in coin.pinned
           /\ Doc(image, NoUri) \in coin.pinned

\* C36: when fetchWithTimeout has settled (returned a response or thrown) its
\* abort timer has been cleared: a run has a pending abort timer only while it
\* is suspended in the fetch of an attempt, so no abort fires afterwards.
SettledFetchHasNoTimer ==
    \A r \in DOMAIN runs : runs[r].timer => runs[r].pc = "fetch"

\* C36 witness: the first attempt of a slot failed and the second returned a
\* response; the run reads the body with no timer pending.
SecondAttemptReturnedTimerCleared ==
    /\ runs # <<>>
    /\ runs[1].pc = "buffer" /\ runs[1].att = RETRIES
    /\ ~runs[1].timer

====
